---- MODULE Spec2Model ----
(***************************************************************************)
(* UK CGT compliance engine: Section 104 pool, same-day and 30-day         *)
(* matching, chronological replay of a holding's transactions.             *)
(*                                                                         *)
(* Money and quantities are Python Decimal values.  A Decimal is modelled  *)
(* as an integer number of units of 10^-Prec; every arithmetic result is   *)
(* rounded half-even to Prec significant digits, as the decimal context    *)
(* does (the context's 28 digits are scaled down to Prec).                 *)
(***************************************************************************)
EXTENDS Integers, Sequences, FiniteSets, TLC

VARIABLES txs, pools, disposal_matches, result, pool, nproc, tlh_execution,
          requests

vars == <<txs, pools, disposal_matches, result, pool, nproc, tlh_execution,
         requests>>

(***************************************************************************)
(* Bounds of the model.                                                    *)
(***************************************************************************)
Prec == 3
MaxTx == 3
MaxRuns == 2
MaxCalls == 4
MaxAdds == 3
MaxDisposals == 2
MaxRequests == 2

(***************************************************************************)
(* Program constants.                                                      *)
(***************************************************************************)
thirty_day_days == 30
aea_2024_25 == 3000
decimal_places == 6

Holdings == {"ABC", "XYZ"}
Dates == {1, 2, 3}
Qtys == {1, 2}
BuyPrices == {1, 3}
SellPrices == {2}
Fees == {0, 1}
RemoveQtys == {1, 2, 3}

(***************************************************************************)
(* Decimal arithmetic.                                                     *)
(***************************************************************************)
Unit == 10 ^ Prec

\* Decimal(n) for a whole number n
Dec(n) == n * Unit

Abs(n) == IF n < 0 THEN -n ELSE n

Sign(n) == IF n < 0 THEN -1 ELSE 1

Min(a, b) == IF a <= b THEN a ELSE b

\* the spacing of representable values around magnitude i (in units):
\* 1 while i has at most Prec digits, then 10, 100, ...
RECURSIVE Ulp(_)
Ulp(i) == IF i < 10 ^ Prec THEN 1 ELSE 10 * Ulp(i \div 10)

\* low + num/den, rounded to low or low + step: to the nearer, to the even
\* multiple of step on a tie
HalfEven(low, num, den, step) ==
    IF 2 * num < den THEN low
    ELSE IF 2 * num > den THEN low + step
    ELSE IF (low \div step) % 2 = 0 THEN low ELSE low + step

\* i + r/d units (0 <= r < d) rounded to a multiple of step
RoundTo(i, r, d, step) ==
    HalfEven(i - (i % step), (i % step) * d + r, step * d, step)

\* i + r/d units (0 <= r < d), rounded half-even to Prec significant digits
RoundHalfEven(i, r, d) == RoundTo(i, r, d, Ulp(i))

\* the context's rounding of the exact value n/d units (d > 0)
Round(n, d) == Sign(n) * RoundHalfEven(Abs(n) \div d, Abs(n) % d, d)

DAdd(a, b) == Round(a + b, 1)

DSub(a, b) == Round(a - b, 1)

\* a * b: the exact product is a*b / Unit units
DMul(a, b) ==
    IF a % Unit = 0 THEN Round((a \div Unit) * b, 1)
    ELSE IF b % Unit = 0 THEN Round(a * (b \div Unit), 1)
    ELSE Round(a * b, Unit)

\* a / b (a >= 0, b > 0): the exact quotient is a*Unit / b units
DDiv(a, b) ==
    RoundHalfEven((a \div b) * Unit + ((a % b) * Unit) \div b,
                  ((a % b) * Unit) % b, b)

\* DecimalField(decimal_places=6): the value a row stores
Quantize(v) ==
    IF decimal_places >= Prec THEN v
    ELSE Sign(v) * RoundTo(Abs(v), 0, 1, 10 ^ (Prec - decimal_places))

(***************************************************************************)
(* Data model.  A Transaction's id is its position in txs, which is also   *)
(* its creation order (created_at is auto_now_add).                        *)
(***************************************************************************)
Transaction(h, d, q, p, f, s) ==
    [holding |-> h, trade_date |-> d, qty |-> Dec(q), price |-> Dec(p),
     fees |-> Dec(f), side |-> s]

\* Section104Pool: no row yet / the row get_or_create makes
NoPool == [exists |-> FALSE, pooled_qty |-> 0, pooled_cost |-> 0]

NewPool == [exists |-> TRUE, pooled_qty |-> Dec(0), pooled_cost |-> Dec(0)]

DisposalMatch(s, b, q, dl) ==
    [sell_tx |-> s, matched_buy_tx |-> b, qty_matched |-> Quantize(q),
     disallowed_loss |-> Quantize(dl)]

\* Section104Pool.objects.get_or_create(holding=holding)
get_or_create(h) == IF pools[h].exists THEN pools[h] ELSE NewPool

\* Model.save(): the row keeps decimal_places digits of each field
save(p) ==
    [exists |-> TRUE, pooled_qty |-> Quantize(p.pooled_qty),
     pooled_cost |-> Quantize(p.pooled_cost)]

(***************************************************************************)
(* Section104Pool                                                          *)
(***************************************************************************)
avg_cost(p) ==
    IF p.pooled_qty > 0 THEN DDiv(p.pooled_cost, p.pooled_qty) ELSE Dec(0)

\* variant: the purchase's fees left out of the cost
add_purchase_without_fees(p, qty, price, fees) ==
    [p EXCEPT !.pooled_qty = DAdd(p.pooled_qty, qty),
              !.pooled_cost = DAdd(p.pooled_cost, DMul(qty, price))]

add_purchase(p, qty, price, fees) ==
    [p EXCEPT !.pooled_qty = DAdd(p.pooled_qty, qty),
              !.pooled_cost = DAdd(p.pooled_cost, DAdd(DMul(qty, price), fees))]

\* variant: remove_disposal without its guard
remove_disposal_never_raises(p, qty) == FALSE

\* remove_disposal raises ValueError when qty > pooled_qty
remove_disposal_raises(p, qty) == qty > p.pooled_qty

\* variant: the average taken after pooled_qty was reduced
remove_disposal_avg_after(p, qty) ==
    IF remove_disposal_raises(p, qty) THEN p
    ELSE [p EXCEPT !.pooled_qty = DSub(p.pooled_qty, qty),
                   !.pooled_cost = DSub(p.pooled_cost,
                       DMul(qty, avg_cost([p EXCEPT !.pooled_qty =
                                              DSub(p.pooled_qty, qty)])))]

remove_disposal(p, qty) ==
    IF remove_disposal_raises(p, qty) THEN p
    ELSE [p EXCEPT !.pooled_qty = DSub(p.pooled_qty, qty),
                   !.pooled_cost = DSub(p.pooled_cost, DMul(qty, avg_cost(p)))]

(***************************************************************************)
(* ComplianceEngine                                                        *)
(***************************************************************************)
_calculate_gain_loss(sell_price, buy_price, qty) ==
    DMul(DSub(sell_price, buy_price), qty)

\* order_by('created_at') of a set of transaction ids
RECURSIVE order_by_created(_)
order_by_created(S) ==
    IF S = {} THEN <<>>
    ELSE LET m == CHOOSE i \in S : \A j \in S : i <= j
         IN  <<m>> \o order_by_created(S \ {m})

\* variant: the trade_date key of the ordering dropped
order_by_created_only(S) == order_by_created(S)

\* variant: within a trade date the latest created first
RECURSIVE order_by_date_latest_created(_)
order_by_date_latest_created(S) ==
    IF S = {} THEN <<>>
    ELSE LET m == CHOOSE i \in S : \A j \in S :
                     \/ txs[i].trade_date < txs[j].trade_date
                     \/ txs[i].trade_date = txs[j].trade_date /\ i >= j
         IN  <<m>> \o order_by_date_latest_created(S \ {m})

\* order_by('trade_date', 'created_at') of a set of transaction ids
RECURSIVE order_by_date_created(_)
order_by_date_created(S) ==
    IF S = {} THEN <<>>
    ELSE LET m == CHOOSE i \in S : \A j \in S :
                     \/ txs[i].trade_date < txs[j].trade_date
                     \/ txs[i].trade_date = txs[j].trade_date /\ i <= j
         IN  <<m>> \o order_by_date_created(S \ {m})

\* variant: the BUYs of every holding searched
_find_same_day_matches_any_holding(sid) ==
    order_by_created({i \in 1..Len(txs) :
        /\ txs[i].side = "BUY"
        /\ txs[i].trade_date = txs[sid].trade_date
        /\ i # sid})

_find_same_day_matches(sid) ==
    order_by_created({i \in 1..Len(txs) :
        /\ txs[i].holding = txs[sid].holding
        /\ txs[i].side = "BUY"
        /\ txs[i].trade_date = txs[sid].trade_date
        /\ i # sid})

\* variant: the window's last day excluded (trade_date__lt)
_find_thirty_day_matches_exclusive(sid) ==
    LET thirty_days_later == txs[sid].trade_date + thirty_day_days
    IN  order_by_date_created({i \in 1..Len(txs) :
            /\ txs[i].holding = txs[sid].holding
            /\ txs[i].side = "BUY"
            /\ txs[i].trade_date > txs[sid].trade_date
            /\ txs[i].trade_date < thirty_days_later})

_find_thirty_day_matches(sid) ==
    LET thirty_days_later == txs[sid].trade_date + thirty_day_days
    IN  order_by_date_created({i \in 1..Len(txs) :
            /\ txs[i].holding = txs[sid].holding
            /\ txs[i].side = "BUY"
            /\ txs[i].trade_date > txs[sid].trade_date
            /\ txs[i].trade_date <= thirty_days_later})

\* the state both matching loops of _process_disposal thread through
LoopState(remaining_qty) ==
    [remaining_qty |-> remaining_qty, matched_qty |-> Dec(0),
     disallowed_loss |-> Dec(0), info_matches |-> <<>>,
     disposal_matches |-> <<>>, created |-> <<>>]

\* variant: the same-day loop without remaining_qty -= match_qty
same_day_match_keeps_remaining(st, buy, match_qty, match_gain_loss) ==
    [st EXCEPT
       !.disposal_matches = Append(@,
           [buy_tx |-> buy, qty |-> match_qty,
            gain_loss |-> match_gain_loss, disallowed |-> FALSE]),
       !.info_matches = Append(@,
           [type |-> "same_day", buy_tx |-> buy, qty |-> match_qty,
            gain_loss |-> match_gain_loss, disallowed_loss |-> Dec(0)]),
       !.matched_qty = DAdd(@, match_qty)]

\* variant: a same-day loss counted into the disposal's disallowed_loss
same_day_match_disallowing(st, buy, match_qty, match_gain_loss) ==
    [st EXCEPT
       !.disposal_matches = Append(@,
           [buy_tx |-> buy, qty |-> match_qty,
            gain_loss |-> match_gain_loss, disallowed |-> FALSE]),
       !.info_matches = Append(@,
           [type |-> "same_day", buy_tx |-> buy, qty |-> match_qty,
            gain_loss |-> match_gain_loss, disallowed_loss |-> Dec(0)]),
       !.remaining_qty = DSub(@, match_qty),
       !.matched_qty = DAdd(@, match_qty),
       !.disallowed_loss = DAdd(@, IF match_gain_loss < 0
                                   THEN Abs(match_gain_loss) ELSE Dec(0))]

\* the body of the same-day loop for one candidate
same_day_match(st, buy, match_qty, match_gain_loss) ==
    [st EXCEPT
       !.disposal_matches = Append(@,
           [buy_tx |-> buy, qty |-> match_qty,
            gain_loss |-> match_gain_loss, disallowed |-> FALSE]),
       !.info_matches = Append(@,
           [type |-> "same_day", buy_tx |-> buy, qty |-> match_qty,
            gain_loss |-> match_gain_loss, disallowed_loss |-> Dec(0)]),
       !.remaining_qty = DSub(@, match_qty),
       !.matched_qty = DAdd(@, match_qty)]

\* Step 1: for match in same_day_matches (from the k-th on)
RECURSIVE same_day_loop(_, _, _, _)
\* variant: the loop without its "if remaining_qty <= 0: break"
same_day_loop_no_break(sid, cands, k, st) ==
    IF k > Len(cands) THEN st
    ELSE same_day_loop(sid, cands, k + 1,
           same_day_match(st, cands[k],
              Min(st.remaining_qty, txs[cands[k]].qty),
              _calculate_gain_loss(txs[sid].price, txs[cands[k]].price,
                                   Min(st.remaining_qty, txs[cands[k]].qty))))

same_day_loop(sid, cands, k, st) ==
    IF k > Len(cands) \/ st.remaining_qty <= 0 THEN st
    ELSE same_day_loop(sid, cands, k + 1,
           same_day_match(st, cands[k],
              Min(st.remaining_qty, txs[cands[k]].qty),
              _calculate_gain_loss(txs[sid].price, txs[cands[k]].price,
                                   Min(st.remaining_qty, txs[cands[k]].qty))))

\* variant: the magnitude taken whatever the sign of the match's result
disallowed_of_any_sign(match_gain_loss) == Abs(match_gain_loss)

\* 30-day rule: if it's a loss, it's disallowed
disallowed_of(match_gain_loss) ==
    IF match_gain_loss < 0 THEN Abs(match_gain_loss) ELSE Dec(0)

\* the body of the 30-day loop for one candidate
thirty_day_match(st, sid, buy, match_qty, match_gain_loss, disallowed_loss) ==
    [st EXCEPT
       !.created = Append(@, DisposalMatch(sid, buy, match_qty, disallowed_loss)),
       !.disposal_matches = Append(@,
           [buy_tx |-> buy, qty |-> match_qty,
            gain_loss |-> match_gain_loss, disallowed |-> disallowed_loss > 0]),
       !.info_matches = Append(@,
           [type |-> "thirty_day", buy_tx |-> buy, qty |-> match_qty,
            gain_loss |-> match_gain_loss, disallowed_loss |-> disallowed_loss]),
       !.remaining_qty = DSub(@, match_qty),
       !.matched_qty = DAdd(@, match_qty),
       !.disallowed_loss = DAdd(@, disallowed_loss)]

thirty_day_gain(st, sid, buy, match_qty, match_gain_loss) ==
    thirty_day_match(st, sid, buy, match_qty, match_gain_loss,
                     disallowed_of(match_gain_loss))

\* Step 2: for match in thirty_day_matches (from the k-th on)
RECURSIVE thirty_day_loop(_, _, _, _)
thirty_day_loop(sid, cands, k, st) ==
    IF k > Len(cands) \/ st.remaining_qty <= 0 THEN st
    ELSE thirty_day_loop(sid, cands, k + 1,
           thirty_day_gain(st, sid, cands[k],
              Min(st.remaining_qty, txs[cands[k]].qty),
              _calculate_gain_loss(txs[sid].price, txs[cands[k]].price,
                                   Min(st.remaining_qty, txs[cands[k]].qty))))

\* variant: the matches' results left out of the total
sum_gain_loss_none(ms, k, acc) == acc

\* sum(match['gain_loss'] for match in disposal_matches), from acc
RECURSIVE sum_gain_loss(_, _, _)
sum_gain_loss(ms, k, acc) ==
    IF k > Len(ms) THEN acc
    ELSE sum_gain_loss(ms, k + 1, DAdd(acc, ms[k].gain_loss))

\* variant: Step 1 left out, the disposal goes straight to the 30-day rule
same_day_step_skipped(sid) == LoopState(txs[sid].qty)

\* Steps 1 and 2 of _process_disposal
same_day_step(sid) ==
    same_day_loop(sid, _find_same_day_matches(sid), 1, LoopState(txs[sid].qty))

thirty_day_step(sid, s1) ==
    IF s1.remaining_qty > 0
    THEN thirty_day_loop(sid, _find_thirty_day_matches(sid), 1, s1)
    ELSE s1

\* what _process_disposal returns (or that it raised), given the state s2
\* after Step 2, whether Step 3 raises, the pool's average cost, the pool
\* portion's gain and the matches' total gain
disposal_result(sid, p, s2, raised, avg, section104_gain_loss, total) ==
    [raised |-> raised,
     pool |-> IF s2.remaining_qty > 0 /\ ~raised
              THEN remove_disposal(p, s2.remaining_qty) ELSE p,
     created |-> s2.created,
     matches |-> IF raised THEN <<>> ELSE s2.disposal_matches,
     disposal |->
        [transaction |-> sid,
         total_qty |-> txs[sid].qty,
         matched_qty |-> s2.matched_qty,
         section104_qty |-> IF s2.remaining_qty > 0 THEN s2.remaining_qty ELSE Dec(0),
         has_section104 |-> s2.remaining_qty > 0,
         section104_avg_cost |-> IF s2.remaining_qty > 0 THEN avg ELSE Dec(0),
         section104_gain_loss |->
             IF s2.remaining_qty > 0 THEN section104_gain_loss ELSE Dec(0),
         total_gain_loss |-> IF s2.remaining_qty > 0
                             THEN DAdd(total, section104_gain_loss) ELSE total,
         disallowed_loss |-> s2.disallowed_loss,
         matches |-> s2.info_matches]]

\* Step 3 of _process_disposal and its total
section104_step(sid, p, s2) ==
    disposal_result(sid, p, s2,
        s2.remaining_qty > 0 /\ (s2.remaining_qty > p.pooled_qty
                                 \/ remove_disposal_raises(p, s2.remaining_qty)),
        avg_cost(p),
        _calculate_gain_loss(txs[sid].price, avg_cost(p), s2.remaining_qty),
        sum_gain_loss(s2.disposal_matches, 1, 0))

\* _process_disposal(sell_tx, pool): raised tells whether it raised ValueError;
\* created are the DisposalMatch rows it made, pool the instance afterwards
_process_disposal(sid, p) ==
    section104_step(sid, p, thirty_day_step(sid, same_day_step(sid)))

\* one SELL of the replay loop, r being what _process_disposal gave
replay_sell(st, sid, r) ==
    IF r.raised
    THEN [st EXCEPT !.raised = TRUE, !.failed_tx = sid,
                    !.created = @ \o r.created]
    ELSE [st EXCEPT !.pool = r.pool,
                    !.disposals = Append(@, r.disposal),
                    !.matches = @ \o r.matches,
                    !.created = @ \o r.created]

\* the replay loop of process_transactions_for_holding over order[k..]
RECURSIVE replay(_, _, _)
replay(order, k, st) ==
    IF k > Len(order) \/ st.raised THEN st
    ELSE IF txs[order[k]].side = "BUY"
    THEN replay(order, k + 1,
           [st EXCEPT !.pool = add_purchase(@, txs[order[k]].qty,
                                   txs[order[k]].price, txs[order[k]].fees)])
    ELSE replay(order, k + 1,
           replay_sell(st, order[k], _process_disposal(order[k], st.pool)))

\* process_transactions_for_holding(holding), up to its return or its raise
process_transactions_for_holding(h) ==
    replay(order_by_date_created({i \in 1..Len(txs) : txs[i].holding = h}), 1,
           [pool |-> get_or_create(h), disposals |-> <<>>, matches |-> <<>>,
            created |-> <<>>, raised |-> FALSE, failed_tx |-> 0])

(***************************************************************************)
(* State.                                                                  *)
(*   txs               Transaction rows, in creation order                 *)
(*   pools             Section104Pool row of each holding                  *)
(*   disposal_matches  DisposalMatch rows, in creation order               *)
(*   result            what the last call was given and what it returned   *)
(*   pool              a Section104Pool instance a caller holds (SpecPool) *)
(*   nproc             calls made so far                                   *)
(*   tlh_execution     the TLHExecution row                                *)
(*   requests          the API requests on that row: where each one is and *)
(*                     the instance get_object() gave it                   *)
(***************************************************************************)
\* no TLHExecution row yet
NoExecution ==
    [exists |-> FALSE, status |-> "", holding |-> "", original_qty |-> 0,
     sell_price |-> 0, sell_fees |-> 0, sell_date |-> 0,
     replacement_ticker |-> "", replacement_qty |-> 0, replacement_price |-> 0]

\* what transaction.atomic() goes back to when its block raises
NoSavepoint ==
    [txs |-> <<>>, pools |-> [h \in Holdings |-> NoPool], disposal_matches |-> <<>>,
     status |-> ""]

\* a request not made yet
NoRequest ==
    [pc |-> "idle", kind |-> "", status |-> "", outcome |-> "", savepoint |-> NoSavepoint]

NoRequests == [r \in 1..MaxRequests |-> NoRequest]

NoResult ==
    [op |-> "none", holding |-> "", arg |-> 0, raised |-> FALSE, pool |-> NoPool,
     disposals |-> <<>>, matches |-> <<>>, failed_tx |-> 0, ret |-> 0]

Init ==
    /\ txs = <<>>
    /\ pools = [h \in Holdings |-> NoPool]
    /\ disposal_matches = <<>>
    /\ result = NoResult
    /\ pool = NoPool
    /\ nproc = 0
    /\ tlh_execution = NoExecution
    /\ requests = NoRequests

\* Transaction.objects.create(...): the holding's history is loaded before
\* the compliance run (load_dummy_portfolio: _load_transactions, then
\* _process_compliance)
CreateTransaction(h, d, q, p, s) ==
    /\ Len(txs) < MaxTx
    /\ nproc = 0
    /\ txs' = Append(txs, Transaction(h, d, q, p, 0, s))
    /\ UNCHANGED <<pools, disposal_matches, result, pool, nproc>>
    /\ UNCHANGED <<tlh_execution, requests>>

\* compliance_engine.process_transactions_for_holding(holding).  There is no
\* transaction.atomic() around the replay: every add_purchase/remove_disposal
\* saves the pool row and every DisposalMatch.objects.create commits, so what
\* was done before a raise stays.
ProcessTransactionsForHolding(h) ==
    /\ nproc < MaxRuns
    /\ \E r \in {process_transactions_for_holding(h)} :
           /\ pools' = [pools EXCEPT ![h] = save(r.pool)]
           /\ disposal_matches' = disposal_matches \o r.created
           /\ result' = [op |-> "process", holding |-> h, arg |-> 0,
                         raised |-> r.raised, pool |-> r.pool,
                         disposals |-> IF r.raised THEN <<>> ELSE r.disposals,
                         matches |-> IF r.raised THEN <<>> ELSE r.matches,
                         failed_tx |-> r.failed_tx, ret |-> 0]
    /\ nproc' = nproc + 1
    /\ UNCHANGED <<txs, pool>>
    /\ UNCHANGED <<tlh_execution, requests>>

(***************************************************************************)
(* Calls made directly on one Section104Pool instance and on the engine's  *)
(* _process_disposal, as the tests and csv_upload make them.               *)
(***************************************************************************)
\* the dates a scenario's BUY may have: before the SELL, on its day, the day
\* after, and the last day of the 30-day window and the first after it
ScenarioDates == {1, 2, 3, 2 + thirty_day_days, 3 + thirty_day_days}

\* one SELL on day 2 (of no share, as test_edge_cases makes one, or more),
\* alone or with a BUY of one share
Scenarios ==
    LET sells == {Transaction("ABC", 2, q, p, 0, "SELL") :
                     q \in {0} \cup RemoveQtys, p \in SellPrices}
        buys  == {Transaction("ABC", d, 1, p, 0, "BUY") : d \in ScenarioDates, p \in BuyPrices}
    IN  {<<s>> : s \in sells} \cup {<<s, b>> : s \in sells, b \in buys}

\* Section104Pool.objects.create(holding=holding): an empty pool
InitPool ==
    /\ txs \in Scenarios
    /\ pools = [h \in Holdings |-> IF h = "ABC" THEN NewPool ELSE NoPool]
    /\ pool = NewPool
    /\ disposal_matches = <<>>
    /\ result = NoResult
    /\ nproc = 0
    /\ tlh_execution = NoExecution
    /\ requests = NoRequests

\* pool.add_purchase(qty, price, fees)
AddPurchase(q, p, f) ==
    /\ nproc < MaxCalls
    /\ pool' = add_purchase(pool, Dec(q), Dec(p), Dec(f))
    /\ pools' = [pools EXCEPT !["ABC"] = save(pool')]
    /\ result' = [NoResult EXCEPT !.op = "add_purchase", !.holding = "ABC",
                                  !.arg = Dec(q), !.pool = pool']
    /\ nproc' = nproc + 1
    /\ UNCHANGED <<txs, disposal_matches>>
    /\ UNCHANGED <<tlh_execution, requests>>

\* pool.remove_disposal(qty): returns the average cost, or raises ValueError
RemoveDisposal(q) ==
    /\ nproc < MaxCalls
    /\ pool' = remove_disposal(pool, Dec(q))
    /\ pools' = IF remove_disposal_raises(pool, Dec(q)) THEN pools
                ELSE [pools EXCEPT !["ABC"] = save(pool')]
    /\ result' = [NoResult EXCEPT !.op = "remove_disposal", !.holding = "ABC",
                                  !.arg = Dec(q), !.pool = pool',
                                  !.raised = remove_disposal_raises(pool, Dec(q)),
                                  !.ret = IF remove_disposal_raises(pool, Dec(q))
                                          THEN 0 ELSE avg_cost(pool)]
    /\ nproc' = nproc + 1
    /\ UNCHANGED <<txs, disposal_matches>>
    /\ UNCHANGED <<tlh_execution, requests>>

\* compliance_engine._process_disposal(sell, pool)
ProcessDisposal(sid) ==
    /\ nproc < MaxCalls
    /\ txs[sid].side = "SELL"
    /\ \E r \in {_process_disposal(sid, pool)} :
           /\ pool' = r.pool
           /\ pools' = IF r.pool = pool THEN pools
                       ELSE [pools EXCEPT !["ABC"] = save(r.pool)]
           /\ disposal_matches' = disposal_matches \o r.created
           /\ result' = [op |-> "_process_disposal", holding |-> "ABC",
                         arg |-> sid, raised |-> r.raised, pool |-> r.pool,
                         disposals |-> IF r.raised THEN <<>> ELSE <<r.disposal>>,
                         matches |-> r.matches,
                         failed_tx |-> IF r.raised THEN sid ELSE 0, ret |-> 0]
    /\ nproc' = nproc + 1
    /\ UNCHANGED txs
    /\ UNCHANGED <<tlh_execution, requests>>

NextPool ==
    \/ \E q \in Qtys, p \in BuyPrices, f \in Fees : AddPurchase(q, p, f)
    \/ \E q \in RemoveQtys : RemoveDisposal(q)
    \/ \E sid \in 1..Len(txs) : ProcessDisposal(sid)

SpecPool == InitPool /\ [][NextPool]_vars


(***************************************************************************)
(* Purchases with fractional quantities, prices and fees: add_purchase on  *)
(* a pool instance, and the replay of a holding that has only BUYs.        *)
(***************************************************************************)
\* 0.5 and 1.5: their products need more decimal places than they have
Amounts == {Unit \div 2, 3 * (Unit \div 2)}

FeeAmounts == {0, Unit \div 2}

\* one or two BUYs of holding ABC with fractional qty, price and fees
BuyOnlyHistories ==
    LET buys == {[holding |-> "ABC", trade_date |-> 1, qty |-> q, price |-> p,
                  fees |-> f, side |-> "BUY"] :
                     q \in Amounts, p \in Amounts, f \in FeeAmounts}
    IN  {<<b>> : b \in buys} \cup {<<a, b>> : a \in buys, b \in buys}

InitAdd ==
    /\ txs \in BuyOnlyHistories
    /\ pools = [h \in Holdings |-> NoPool]
    /\ pool = NewPool
    /\ disposal_matches = <<>>
    /\ result = NoResult
    /\ nproc = 0
    /\ tlh_execution = NoExecution
    /\ requests = NoRequests

\* pool.add_purchase(qty, price, fees), the arguments any Decimal values
AddPurchaseOf(qty, price, fees) ==
    /\ nproc < MaxAdds
    /\ pool' = add_purchase(pool, qty, price, fees)
    /\ result' = [NoResult EXCEPT !.op = "add_purchase", !.holding = "ABC",
                                  !.arg = qty, !.pool = pool']
    /\ nproc' = nproc + 1
    /\ UNCHANGED <<txs, pools, disposal_matches>>
    /\ UNCHANGED <<tlh_execution, requests>>

NextAdd ==
    \/ \E q \in Amounts, p \in Amounts, f \in FeeAmounts : AddPurchaseOf(q, p, f)
    \/ ProcessTransactionsForHolding("ABC")

SpecAdd == InitAdd /\ [][NextAdd]_vars


(***************************************************************************)
(* CGTReportGenerator: the totals of a reporting period.                   *)
(***************************************************************************)
Max(a, b) == IF a >= b THEN a ELSE b

\* the end of _calculate_disposal_details: gain_loss and allowable_loss of a
\* disposal from its proceeds, its total cost and its disallowed loss
disposal_details(disposal_proceeds, total_cost, disallowed_loss) ==
    [disposal_proceeds |-> disposal_proceeds,
     total_cost |-> total_cost,
     gain_loss |-> DSub(disposal_proceeds, total_cost),
     disallowed_loss |-> disallowed_loss,
     allowable_loss |-> DAdd(DSub(disposal_proceeds, total_cost), disallowed_loss)]

\* the totals dict _calculate_totals starts from
NewTotals(n) ==
    [total_disposals |-> n, total_proceeds |-> Dec(0), total_cost |-> Dec(0),
     gross_gains |-> Dec(0), gross_losses |-> Dec(0),
     disallowed_losses |-> Dec(0), net_gains |-> Dec(0),
     annual_exempt_amount |-> Dec(aea_2024_25),
     taxable_gains |-> Dec(0), carry_forward_losses |-> Dec(0)]

\* variant: a disposal classified by its gain_loss, disallowed losses not
\* added back
totals_step_by_gain_loss(totals, disposal) ==
    [totals EXCEPT
       !.total_proceeds = DAdd(@, disposal.disposal_proceeds),
       !.total_cost = DAdd(@, disposal.total_cost),
       !.disallowed_losses = DAdd(@, disposal.disallowed_loss),
       !.gross_gains = IF disposal.gain_loss > 0
                       THEN DAdd(@, disposal.gain_loss) ELSE @,
       !.gross_losses = IF disposal.gain_loss > 0
                        THEN @ ELSE DAdd(@, Abs(disposal.gain_loss))]

\* the body of "for disposal in disposals"
totals_step(totals, disposal) ==
    [totals EXCEPT
       !.total_proceeds = DAdd(@, disposal.disposal_proceeds),
       !.total_cost = DAdd(@, disposal.total_cost),
       !.disallowed_losses = DAdd(@, disposal.disallowed_loss),
       !.gross_gains = IF disposal.allowable_loss > 0
                       THEN DAdd(@, disposal.allowable_loss) ELSE @,
       !.gross_losses = IF disposal.allowable_loss > 0
                        THEN @ ELSE DAdd(@, Abs(disposal.allowable_loss))]

RECURSIVE totals_loop(_, _, _)
totals_loop(disposals, k, totals) ==
    IF k > Len(disposals) THEN totals
    ELSE totals_loop(disposals, k + 1, totals_step(totals, disposals[k]))

\* totals['net_gains'] = totals['gross_gains'] - totals['gross_losses']
net_gains_of(totals) ==
    [totals EXCEPT !.net_gains = DSub(totals.gross_gains, totals.gross_losses)]

\* variant: the exempt amount subtracted without max(0, ...)
apply_annual_exempt_amount_unclamped(totals) ==
    IF totals.net_gains > 0
    THEN [totals EXCEPT !.taxable_gains =
             DSub(totals.net_gains, totals.annual_exempt_amount)]
    ELSE [totals EXCEPT !.carry_forward_losses = Abs(totals.net_gains)]

\* Apply Annual Exempt Amount
apply_annual_exempt_amount(totals) ==
    IF totals.net_gains > 0
    THEN [totals EXCEPT !.taxable_gains =
             Max(Dec(0), DSub(totals.net_gains, totals.annual_exempt_amount))]
    ELSE [totals EXCEPT !.carry_forward_losses = Abs(totals.net_gains)]

_calculate_totals(disposals) ==
    apply_annual_exempt_amount(
        net_gains_of(totals_loop(disposals, 1, NewTotals(Len(disposals)))))

\* proceeds, costs and disallowed losses of a period's disposals, in pounds
Proceeds == {1000, 5000}

Costs == {1000, 2000, 6000}

Disallowed == {0, 1000}

ReportDisposals ==
    {disposal_details(Dec(p), Dec(c), Dec(dl)) :
        p \in Proceeds, c \in Costs, dl \in Disallowed}

\* the disposals of a period: at most MaxDisposals of them
Periods ==
    UNION {[1..n -> ReportDisposals] : n \in 0..MaxDisposals}

InitReport ==
    /\ txs = <<>>
    /\ pools = [h \in Holdings |-> NoPool]
    /\ pool = NoPool
    /\ disposal_matches = <<>>
    /\ result \in {[NoResult EXCEPT !.op = "disposals", !.disposals = ds] :
                       ds \in Periods}
    /\ nproc = 0
    /\ tlh_execution = NoExecution
    /\ requests = NoRequests

\* totals = self._calculate_totals(disposals)
CalculateTotals ==
    /\ result.op = "disposals"
    /\ result' = [result EXCEPT !.op = "_calculate_totals",
                                !.ret = _calculate_totals(result.disposals)]
    /\ UNCHANGED <<txs, pools, pool, disposal_matches, nproc>>
    /\ UNCHANGED <<tlh_execution, requests>>

NextReport == CalculateTotals

SpecReport == InitReport /\ [][NextReport]_vars

(***************************************************************************)
(* CGTReportGenerator: the disposals of a period, computed from the rows   *)
(* the compliance run left.                                                *)
(***************************************************************************)
\* DisposalMatch.objects.filter(sell_tx=sell_tx)
matches_of(sid) == SelectSeq(disposal_matches, LAMBDA m : m.sell_tx = sid)

\* the loop over the matches: matched_qty, disallowed_loss and the sum of
\* match['cost'] * match['qty'], the cost being the matched BUY's price
RECURSIVE report_matches_loop(_, _, _)
report_matches_loop(ms, k, acc) ==
    IF k > Len(ms) THEN acc
    ELSE report_matches_loop(ms, k + 1,
             [matched_qty |-> DAdd(acc.matched_qty, ms[k].qty_matched),
              disallowed_loss |-> DAdd(acc.disallowed_loss, ms[k].disallowed_loss),
              total_cost |-> DAdd(acc.total_cost,
                                  DMul(txs[ms[k].matched_buy_tx].price,
                                       ms[k].qty_matched))])

\* disposal['section104_cost'] = remaining_qty * pool.avg_cost, the pool row
\* being the holding's as it is when the report is generated
report_section104_cost(remaining_qty, p) ==
    IF remaining_qty > 0 /\ p.exists
    THEN DMul(remaining_qty, avg_cost(p))
    ELSE Dec(0)

report_disposal(sid, p, m) ==
    [transaction |-> sid,
     qty |-> txs[sid].qty,
     matched_qty |-> m.matched_qty,
     section104_qty |-> IF DSub(txs[sid].qty, m.matched_qty) > 0 /\ p.exists
                        THEN DSub(txs[sid].qty, m.matched_qty) ELSE Dec(0),
     section104_cost |-> report_section104_cost(DSub(txs[sid].qty, m.matched_qty), p)]
    @@ disposal_details(
           DMul(txs[sid].qty, txs[sid].price),
           DAdd(m.total_cost,
                report_section104_cost(DSub(txs[sid].qty, m.matched_qty), p)),
           m.disallowed_loss)

_calculate_disposal_details(sid, p) ==
    report_disposal(sid, p,
        report_matches_loop(matches_of(sid), 1,
            [matched_qty |-> Dec(0), disallowed_loss |-> Dec(0), total_cost |-> Dec(0)]))

\* the SELLs of the period (one that covers every trade date), by trade_date
_get_disposals_in_period ==
    LET sell_transactions ==
            order_by_date_created({i \in 1..Len(txs) : txs[i].side = "SELL"})
    IN  [k \in 1..Len(sell_transactions) |->
            _calculate_disposal_details(sell_transactions[k],
                                        pools[txs[sell_transactions[k]].holding])]

\* report_generator.generate_report(...) after a compliance run; what the
\* run returned is kept beside the report's disposals
GenerateReport ==
    /\ result.op = "process"
    /\ result' = [result EXCEPT !.op = "report", !.ret = _get_disposals_in_period]
    /\ UNCHANGED <<txs, pools, pool, disposal_matches, nproc>>
    /\ UNCHANGED <<tlh_execution, requests>>

(***************************************************************************)
(* Two holdings side by side, each with its own short history, processed   *)
(* one after the other in either order.                                    *)
(***************************************************************************)
\* the transactions a holding's history is made of, each of one share
TransactionsOf(h) ==
    {Transaction(h, d, 1, p, 0, "BUY") : d \in {1, 2}, p \in BuyPrices}
        \cup {Transaction(h, d, 1, p, 0, "SELL") : d \in {1, 2}, p \in SellPrices}

\* a holding's history: up to two transactions
HistoriesOf(h) ==
    {<<>>} \cup {<<t>> : t \in TransactionsOf(h)}
           \cup {<<t, u>> : t \in TransactionsOf(h), u \in TransactionsOf(h)}

InitHoldings ==
    /\ txs \in {a \o x : a \in HistoriesOf("ABC"), x \in HistoriesOf("XYZ")}
    /\ pools = [h \in Holdings |-> NoPool]
    /\ pool = NoPool
    /\ disposal_matches = <<>>
    /\ result = NoResult
    /\ nproc = 0
    /\ tlh_execution = NoExecution
    /\ requests = NoRequests

NextHoldings == \E h \in Holdings : ProcessTransactionsForHolding(h)

SpecHoldings == InitHoldings /\ [][NextHoldings]_vars

(***************************************************************************)
(* One history held twice: ABC has a BUY and a SELL of the same trade date *)
(* with the BUY created first, XYZ the same two with the SELL created      *)
(* first; both may have an earlier BUY.                                    *)
(***************************************************************************)
SameDayHistory(h, earlier, b, s, buy_first) ==
    earlier \o (IF buy_first
                THEN <<Transaction(h, 2, b[1], b[2], 0, "BUY"),
                       Transaction(h, 2, s[1], s[2], 0, "SELL")>>
                ELSE <<Transaction(h, 2, s[1], s[2], 0, "SELL"),
                       Transaction(h, 2, b[1], b[2], 0, "BUY")>>)

MirroredHistories ==
    {SameDayHistory("ABC", <<Transaction("ABC", 1, e[1], e[2], 0, "BUY")>>, b, s, TRUE)
        \o SameDayHistory("XYZ", <<Transaction("XYZ", 1, e[1], e[2], 0, "BUY")>>, b, s, FALSE) :
            e \in Qtys \X BuyPrices, b \in Qtys \X BuyPrices, s \in Qtys \X SellPrices}
    \cup
    {SameDayHistory("ABC", <<>>, b, s, TRUE) \o SameDayHistory("XYZ", <<>>, b, s, FALSE) :
            b \in Qtys \X BuyPrices, s \in Qtys \X SellPrices}

InitOrder ==
    /\ txs \in MirroredHistories
    /\ pools = [h \in Holdings |-> NoPool]
    /\ pool = NoPool
    /\ disposal_matches = <<>>
    /\ result = NoResult
    /\ nproc = 0
    /\ tlh_execution = NoExecution
    /\ requests = NoRequests

NextOrder == \E h \in Holdings : ProcessTransactionsForHolding(h)

SpecOrder == InitOrder /\ [][NextOrder]_vars

(***************************************************************************)
(* TLHExecutionService and the execute / cancel actions of                 *)
(* TLHExecutionViewSet.  A request first loads the row (get_object), then  *)
(* acts on the instance it loaded; nothing locks the row in between.  The  *)
(* block under transaction.atomic() runs in steps no other request         *)
(* interleaves with, and is undone as a whole when it raises.              *)
(***************************************************************************)
\* date.today()
today == 40

\* the holding before the harvest: a BUY, and maybe a SELL long ago or on
\* the first day the 30-day check still counts
TLHHistories ==
    {<<Transaction("ABC", 1, q, p, 0, "BUY")>> : q \in Qtys, p \in BuyPrices}
    \cup
    {<<Transaction("ABC", 1, q, p, 0, "BUY"), Transaction("ABC", d, q2, s, 0, "SELL")>> :
        q \in Qtys, p \in BuyPrices, d \in {2, today - thirty_day_days},
        q2 \in Qtys, s \in SellPrices}

\* the replacement securities a harvest may name: none, another holding, or
\* the harvested holding itself
ReplacementTickers == {"", "XYZ", "ABC"}

_check_thirty_day_compliance(h) ==
    \E i \in 1..Len(txs) :
        /\ txs[i].holding = h
        /\ txs[i].side = "SELL"
        /\ txs[i].trade_date >= today - 30

\* create_tlh_execution raises ValidationError
create_tlh_execution_raises(h, current_price) ==
    \/ ~pools[h].exists
    \/ pools[h].pooled_qty <= 0
    \/ DMul(DSub(avg_cost(pools[h]), current_price), pools[h].pooled_qty) <= 0
    \/ _check_thirty_day_compliance(h)

\* TLHExecution.objects.create(...)
create_tlh_execution(h, current_price, replacement_ticker) ==
    [exists |-> TRUE, status |-> "PENDING", holding |-> h,
     original_qty |-> pools[h].pooled_qty,
     sell_price |-> current_price, sell_fees |-> Dec(0), sell_date |-> today,
     replacement_ticker |-> replacement_ticker,
     replacement_qty |-> IF replacement_ticker = "" THEN 0 ELSE Dec(1),
     replacement_price |-> IF replacement_ticker = "" THEN 0 ELSE Dec(1)]

\* the SELL execute_tlh creates, and the BUY of the replacement if one is named
sell_tx_of(e) ==
    [holding |-> e.holding, trade_date |-> e.sell_date, qty |-> Quantize(e.original_qty),
     price |-> Quantize(e.sell_price), fees |-> Quantize(e.sell_fees), side |-> "SELL"]

has_replacement(e) ==
    e.replacement_ticker # "" /\ e.replacement_qty # 0 /\ e.replacement_price # 0

replacement_tx_of(e) ==
    [holding |-> e.replacement_ticker, trade_date |-> e.sell_date,
     qty |-> Quantize(e.replacement_qty), price |-> Quantize(e.replacement_price),
     fees |-> Dec(0), side |-> "BUY"]

\* the rows as they are now
Database ==
    [txs |-> txs, pools |-> pools, disposal_matches |-> disposal_matches,
     status |-> tlh_execution.status]

\* variant: the block's writes kept when it raises
atomic_none(savepoint, after, raised) == after

\* with transaction.atomic(): the block's writes, or none of them if it raised
atomic(savepoint, after, raised) == IF raised THEN savepoint ELSE after

\* except Exception: status = 'FAILED', save()
except_failed(db, raised) == IF raised THEN [db EXCEPT !.status = "FAILED"] ELSE db

\* a request is inside the atomic block of execute_tlh
InAtomic == \E r \in 1..MaxRequests : requests[r].pc \in {"holding", "replacement"}

InitTLH ==
    /\ txs \in TLHHistories
    /\ pools = [h \in Holdings |-> NoPool]
    /\ pool = NoPool
    /\ disposal_matches = <<>>
    /\ result = NoResult
    /\ nproc = 0
    /\ tlh_execution = NoExecution
    /\ requests = NoRequests

\* tlh_execution_service.create_tlh_execution(client, holding, sell_price, ...)
CreateTLHExecution(h, sell_price, replacement_ticker) ==
    /\ ~tlh_execution.exists
    /\ ~create_tlh_execution_raises(h, Dec(sell_price))
    /\ tlh_execution' = create_tlh_execution(h, Dec(sell_price), replacement_ticker)
    /\ UNCHANGED <<txs, pools, disposal_matches, result, pool, nproc, requests>>

\* tlh_execution = self.get_object() of an execute or a cancel request
GetObject(r, kind) ==
    /\ tlh_execution.exists
    /\ ~InAtomic
    /\ requests[r].pc = "idle"
    /\ IF r = 1 THEN TRUE ELSE requests[r - 1].pc # "idle"
    /\ requests' = [requests EXCEPT ![r] =
                       [NoRequest EXCEPT !.pc = "loaded", !.kind = kind,
                                         !.status = tlh_execution.status]]
    /\ UNCHANGED <<txs, pools, disposal_matches, result, pool, nproc, tlh_execution>>

\* the view's status check, then execute_tlh up to tlh_execution.save()
Execute(r) ==
    /\ ~InAtomic
    /\ requests[r].pc = "loaded"
    /\ requests[r].kind = "execute"
    /\ IF requests[r].status # "PENDING"
       THEN /\ requests' = [requests EXCEPT ![r].pc = "done", ![r].outcome = "rejected"]
            /\ UNCHANGED <<txs, tlh_execution>>
       ELSE /\ txs' = Append(txs, sell_tx_of(tlh_execution))
                        \o (IF has_replacement(tlh_execution)
                            THEN <<replacement_tx_of(tlh_execution)>> ELSE <<>>)
            /\ tlh_execution' = [tlh_execution EXCEPT !.status = "EXECUTED"]
            /\ requests' = [requests EXCEPT ![r].pc = "holding",
                                            ![r].status = "EXECUTED",
                                            ![r].savepoint = Database]
    /\ UNCHANGED <<pools, disposal_matches, result, pool, nproc>>

\* what the block leaves after a replay of holding h that gave rp
after_replay(h, rp) ==
    [txs |-> txs, pools |-> [pools EXCEPT ![h] = save(rp.pool)],
     disposal_matches |-> disposal_matches \o rp.created,
     status |-> tlh_execution.status]

\* the request's step out of a replay: on to the next one, out of the block
\* with its writes, or out of it through except
leave_replay(r, db, raised, next_pc) ==
    /\ txs' = db.txs
    /\ pools' = db.pools
    /\ disposal_matches' = db.disposal_matches
    /\ tlh_execution' = [tlh_execution EXCEPT !.status = db.status]
    /\ requests' = [requests EXCEPT ![r] =
                       IF raised
                       THEN [@ EXCEPT !.pc = "done", !.outcome = "failed",
                                      !.status = "FAILED", !.savepoint = NoSavepoint]
                       ELSE IF next_pc = "done"
                       THEN [@ EXCEPT !.pc = "done", !.outcome = "success",
                                      !.savepoint = NoSavepoint]
                       ELSE [@ EXCEPT !.pc = next_pc]]
    /\ UNCHANGED <<result, pool, nproc>>

\* self.compliance_engine.process_transactions_for_holding(tlh_execution.holding)
ExecuteHolding(r) ==
    /\ requests[r].pc = "holding"
    /\ \E rp \in {process_transactions_for_holding(tlh_execution.holding)} :
          leave_replay(r,
              except_failed(atomic(requests[r].savepoint,
                                   after_replay(tlh_execution.holding, rp), rp.raised),
                            rp.raised),
              rp.raised,
              IF has_replacement(tlh_execution) THEN "replacement" ELSE "done")

\* self.compliance_engine.process_transactions_for_holding(replacement_tx.holding)
ExecuteReplacement(r) ==
    /\ requests[r].pc = "replacement"
    /\ \E rp \in {process_transactions_for_holding(tlh_execution.replacement_ticker)} :
          leave_replay(r,
              except_failed(atomic(requests[r].savepoint,
                                   after_replay(tlh_execution.replacement_ticker, rp),
                                   rp.raised),
                            rp.raised),
              rp.raised, "done")

\* tlh_execution_service.cancel_tlh_execution(tlh_execution)
Cancel(r) ==
    /\ ~InAtomic
    /\ requests[r].pc = "loaded"
    /\ requests[r].kind = "cancel"
    /\ IF requests[r].status # "PENDING"
       THEN /\ requests' = [requests EXCEPT ![r].pc = "done", ![r].outcome = "rejected"]
            /\ UNCHANGED tlh_execution
       ELSE /\ tlh_execution' = [tlh_execution EXCEPT !.status = "CANCELLED"]
            /\ requests' = [requests EXCEPT ![r].pc = "done", ![r].outcome = "success",
                                            ![r].status = "CANCELLED"]
    /\ UNCHANGED <<txs, pools, disposal_matches, result, pool, nproc>>

NextTLH ==
    \/ ~tlh_execution.exists /\ ProcessTransactionsForHolding("ABC")
    \/ \E p \in SellPrices, t \in ReplacementTickers : CreateTLHExecution("ABC", p, t)
    \/ \E r \in 1..MaxRequests, kind \in {"execute", "cancel"} : GetObject(r, kind)
    \/ \E r \in 1..MaxRequests : Execute(r)
    \/ \E r \in 1..MaxRequests : ExecuteHolding(r)
    \/ \E r \in 1..MaxRequests : ExecuteReplacement(r)
    \/ \E r \in 1..MaxRequests : Cancel(r)

SpecTLH == InitTLH /\ [][NextTLH]_vars

Next ==
    \/ \E d \in Dates, q \in Qtys, p \in BuyPrices : CreateTransaction("ABC", d, q, p, "BUY")
    \/ \E d \in Dates, q \in Qtys, p \in SellPrices : CreateTransaction("ABC", d, q, p, "SELL")
    \/ ProcessTransactionsForHolding("ABC")
    \/ GenerateReport

Spec == Init /\ [][Next]_vars

(***************************************************************************)
(* Helpers of the properties: plain sums and the candidate sets, written   *)
(* from the rules and not from the engine's loops.                         *)
(***************************************************************************)
\* the sum of a sequence of numbers
RECURSIVE SumSeq(_)
SumSeq(ns) == IF ns = <<>> THEN 0 ELSE Head(ns) + SumSeq(Tail(ns))

\* quantity of disposal d matched under rule type
MatchedUnder(d, type) ==
    SumSeq([i \in 1..Len(d.matches) |->
               IF d.matches[i].type = type THEN d.matches[i].qty ELSE 0])

\* quantity of disposal d matched against BUY b
MatchedWith(d, b) ==
    SumSeq([i \in 1..Len(d.matches) |->
               IF d.matches[i].buy_tx = b THEN d.matches[i].qty ELSE 0])

\* quantity matched against BUY b by all disposals ds
MatchedAgainst(ds, b) == SumSeq([k \in 1..Len(ds) |-> MatchedWith(ds[k], b)])

BuyIds == {i \in 1..Len(txs) : txs[i].side = "BUY"}
SellIds == {i \in 1..Len(txs) : txs[i].side = "SELL"}

\* a call of process_transactions_for_holding returned
Processed == result.op = "process" /\ ~result.raised

\* ... and it was the first one, so the replay started from an empty pool
ProcessedOnce == Processed /\ nproc = 1

(***************************************************************************)
(* C1  Conservation: for every disposal _process_disposal completes, the   *)
(* quantity matched same-day plus the quantity matched under the 30-day    *)
(* rule plus section104_qty equals the disposal's quantity.                *)
(***************************************************************************)
C1_Conservation ==
    Processed =>
        \A k \in 1..Len(result.disposals) :
            LET d == result.disposals[k]
            IN  /\ MatchedUnder(d, "same_day") + MatchedUnder(d, "thirty_day")
                       + d.section104_qty = txs[d.transaction].qty
                /\ d.matched_qty + d.section104_qty = d.total_qty
                /\ d.total_qty = txs[d.transaction].qty

\* a disposal absorbed partly by a match and partly by the pool
C1_Witness ==
    /\ Processed
    /\ \E k \in 1..Len(result.disposals) :
          /\ result.disposals[k].matched_qty > 0
          /\ result.disposals[k].section104_qty > 0

(***************************************************************************)
(* C2  For every pool, after any sequence of add_purchase and              *)
(* remove_disposal calls from the empty pool: pooled_qty >= 0,             *)
(* pooled_cost >= 0, and avg_cost * pooled_qty equals pooled_cost within   *)
(* decimal rounding whenever pooled_qty > 0.                               *)
(***************************************************************************)
\* the rounding of one division and one product of pooled_qty shares
RoundingSlack(p) == (p.pooled_qty \div Unit + 1) * Ulp(Abs(p.pooled_cost))

C2_PoolInvariant ==
    /\ pool.pooled_qty >= 0
    /\ pool.pooled_cost >= 0
    /\ pool.pooled_qty > 0 =>
          Abs(DMul(avg_cost(pool), pool.pooled_qty) - pool.pooled_cost)
              <= RoundingSlack(pool)

(***************************************************************************)
(* C3  Within one replay, the total quantity matched against any single    *)
(* BUY, over all disposals' same-day and 30-day matches, never exceeds     *)
(* that BUY's quantity.                                                    *)
(***************************************************************************)
C3_BuyNotOverMatched ==
    Processed =>
        \A b \in BuyIds : MatchedAgainst(result.disposals, b) <= txs[b].qty

\* two disposals on the day of one BUY, both matched against it
C3_Witness ==
    /\ Processed
    /\ \E b \in BuyIds :
          Cardinality({k \in 1..Len(result.disposals) :
                          MatchedWith(result.disposals[k], b) > 0}) >= 2

(***************************************************************************)
(* C4  Shares of a BUY matched same-day by a SELL never remain in the      *)
(* pool: for a holding with a BUY of q_b and a same-date SELL of           *)
(* q_s <= q_b, the disposal has matched_qty = q_s, section104_qty = 0 and  *)
(* the resulting pool quantity is q_b - q_s.                               *)
(***************************************************************************)
C4_SameDayNotPooled ==
    \A b \in BuyIds, s \in SellIds :
        (/\ ProcessedOnce
         /\ Len(txs) = 2
         /\ txs[b].trade_date = txs[s].trade_date
         /\ txs[s].qty <= txs[b].qty)
        => /\ Len(result.disposals) = 1
           /\ result.disposals[1].matched_qty = txs[s].qty
           /\ result.disposals[1].section104_qty = 0
           /\ pools["ABC"].pooled_qty = txs[b].qty - txs[s].qty

(***************************************************************************)
(* C5  Shares of a later BUY consumed by a 30-day-forward match never      *)
(* enter the pool: after the replay of BUY b1, SELL s, BUY b2 (b2 in the   *)
(* 30 days after s and fully matched by it) the pool holds b1's shares     *)
(* less the pool portion of s, at the average cost in effect before the    *)
(* sale.                                                                   *)
(***************************************************************************)
C5_ThirtyDayMatchNotPooled ==
    \A b1 \in BuyIds, b2 \in BuyIds, s \in SellIds :
        (/\ ProcessedOnce
         /\ Len(txs) = 3
         /\ txs[b1].trade_date < txs[s].trade_date
         /\ txs[s].trade_date < txs[b2].trade_date
         /\ txs[b2].trade_date <= txs[s].trade_date + thirty_day_days
         /\ txs[b2].qty <= txs[s].qty)
        => /\ pools["ABC"].pooled_qty
                 = txs[b1].qty - (txs[s].qty - txs[b2].qty)
           /\ pools["ABC"].pooled_qty > 0 =>
                 avg_cost(pools["ABC"])
                     = avg_cost(add_purchase(NewPool, txs[b1].qty,
                                             txs[b1].price, txs[b1].fees))

(***************************************************************************)
(* C6  Idempotence: a second call of process_transactions_for_holding on   *)
(* unchanged transactions leaves pooled_qty and pooled_cost as the first   *)
(* call left them and returns the same disposal results.                   *)
(***************************************************************************)
C6_Idempotent ==
    [][(ProcessTransactionsForHolding("ABC") /\ Processed)
         => /\ pools'["ABC"].pooled_qty = pools["ABC"].pooled_qty
            /\ pools'["ABC"].pooled_cost = pools["ABC"].pooled_cost
            /\ ~result'.raised
            /\ result'.disposals = result.disposals]_vars

(***************************************************************************)
(* C7  Atomic failure: if process_transactions_for_holding fails, the      *)
(* persisted state is what it was before the call: the pool row is         *)
(* unchanged and no DisposalMatch row of the failed replay remains.        *)
(***************************************************************************)
C7_AtomicFailure ==
    [][(ProcessTransactionsForHolding("ABC") /\ result'.raised)
         => /\ pools'["ABC"].pooled_qty = pools["ABC"].pooled_qty
            /\ pools'["ABC"].pooled_cost = pools["ABC"].pooled_cost
            /\ disposal_matches' = disposal_matches]_vars

(***************************************************************************)
(* C8  A disposal whose remaining quantity, after same-day and 30-day      *)
(* matching, exceeds the pool's quantity fails with an error, and          *)
(* remove_disposal(qty) with qty > pooled_qty fails with an error; in both *)
(* cases pooled_qty and pooled_cost are left unchanged.                    *)
(***************************************************************************)
\* BUYs of the SELL's holding on its day / in the 30 days after it
SameDayBuys(sid) ==
    {b \in BuyIds : /\ txs[b].holding = txs[sid].holding
                    /\ txs[b].trade_date = txs[sid].trade_date}

WindowBuys(sid) ==
    {b \in BuyIds : /\ txs[b].holding = txs[sid].holding
                    /\ txs[b].trade_date > txs[sid].trade_date
                    /\ txs[b].trade_date <= txs[sid].trade_date + thirty_day_days}

\* the total quantity of a set of transactions
RECURSIVE QtyOf(_)
QtyOf(S) ==
    IF S = {} THEN 0
    ELSE LET x == CHOOSE y \in S : TRUE IN txs[x].qty + QtyOf(S \ {x})

\* what same-day and 30-day matching leave of SELL sid for the pool
RemainingFor(sid) ==
    LET left == txs[sid].qty - QtyOf(SameDayBuys(sid)) - QtyOf(WindowBuys(sid))
    IN  IF left > 0 THEN left ELSE 0

PoolUntouched ==
    /\ pool'.pooled_qty = pool.pooled_qty
    /\ pool'.pooled_cost = pool.pooled_cost
    /\ pools' = pools

C8_InsufficientPoolFails ==
    [][/\ \A q \in RemoveQtys :
             (RemoveDisposal(q) /\ Dec(q) > pool.pooled_qty)
                 => (result'.raised /\ PoolUntouched)
       /\ \A sid \in SellIds :
             (ProcessDisposal(sid) /\ RemainingFor(sid) > pool.pooled_qty)
                 => (result'.raised /\ PoolUntouched)]_vars

\* a disposal partly matched, its remainder more than a non-empty pool holds
C8_Witness ==
    /\ result.op = "_process_disposal"
    /\ result.raised
    /\ pool.pooled_qty > 0
    /\ SameDayBuys(result.arg) \cup WindowBuys(result.arg) # {}

(***************************************************************************)
(* C9  Strict priority order: a disposal is absorbed first by same-day     *)
(* BUYs, then by BUYs of the 30 days after it, and only what still remains *)
(* is taken from the pool; the pool is never reduced while a same-day or   *)
(* 30-day acquisition still has quantity available to the disposal.        *)
(***************************************************************************)
\* every BUY of S is matched by disposal d for its whole quantity
TakenWhole(d, S) == \A b \in S : MatchedWith(d, b) = txs[b].qty

C9_PriorityOrder ==
    Processed =>
        \A k \in 1..Len(result.disposals) :
            LET d == result.disposals[k]
                sid == d.transaction
            IN  /\ \A i, j \in 1..Len(d.matches) :
                      (d.matches[i].type = "thirty_day"
                          /\ d.matches[j].type = "same_day") => j < i
                /\ MatchedUnder(d, "thirty_day") > 0
                      => TakenWhole(d, SameDayBuys(sid))
                /\ d.section104_qty > 0
                      => TakenWhole(d, SameDayBuys(sid) \cup WindowBuys(sid))
                /\ \A i \in 1..Len(d.matches) :
                      d.matches[i].buy_tx \in
                          (IF d.matches[i].type = "same_day"
                           THEN SameDayBuys(sid) ELSE WindowBuys(sid))

\* a disposal that used a same-day BUY, a 30-day BUY or both, and the pool
C9_Witness ==
    /\ Processed
    /\ \E k \in 1..Len(result.disposals) :
          /\ result.disposals[k].section104_qty > 0
          /\ MatchedUnder(result.disposals[k], "same_day") > 0

(***************************************************************************)
(* C10  Ordering within a rule: 30-day matches consume candidate BUYs in   *)
(* ascending trade date, ties by creation order, a later BUY only after    *)
(* every earlier one is fully consumed; same-day matches consume same-date *)
(* BUYs in creation order.                                                 *)
(***************************************************************************)
\* BUY a comes before BUY b in (trade_date, creation) order
Earlier(a, b) ==
    \/ txs[a].trade_date < txs[b].trade_date
    \/ txs[a].trade_date = txs[b].trade_date /\ a < b

C10_OrderWithinRule ==
    Processed =>
        \A k \in 1..Len(result.disposals) :
            LET d == result.disposals[k]
                sid == d.transaction
            IN  /\ \A i, j \in 1..Len(d.matches) :
                      (i < j /\ d.matches[i].type = d.matches[j].type)
                          => Earlier(d.matches[i].buy_tx, d.matches[j].buy_tx)
                /\ \A i \in 1..Len(d.matches) :
                      \A c \in (IF d.matches[i].type = "same_day"
                                THEN SameDayBuys(sid) ELSE WindowBuys(sid)) :
                          Earlier(c, d.matches[i].buy_tx)
                              => MatchedWith(d, c) = txs[c].qty

\* two 30-day matches of one disposal, the earlier-dated BUY created later
C10_Witness ==
    /\ Processed
    /\ \E k \in 1..Len(result.disposals) :
          LET d == result.disposals[k]
          IN  \E i, j \in 1..Len(d.matches) :
                 /\ i < j
                 /\ d.matches[i].type = "thirty_day"
                 /\ d.matches[j].type = "thirty_day"
                 /\ d.matches[i].buy_tx > d.matches[j].buy_tx

(***************************************************************************)
(* C11  30-day window bounds: a BUY is a 30-day candidate for a SELL of    *)
(* its holding iff sell.trade_date < buy.trade_date <= sell.trade_date +   *)
(* 30; a BUY dated 31 or more days after the sale, or before it, is never  *)
(* 30-day matched, and the disposal then falls to the pool with            *)
(* disallowed_loss = 0.                                                    *)
(***************************************************************************)
\* BUYs of the SELL's holding dated in (sell date, sell date + 30]
InWindow(sid) ==
    {b \in BuyIds : /\ txs[b].holding = txs[sid].holding
                    /\ txs[sid].trade_date < txs[b].trade_date
                    /\ txs[b].trade_date <= txs[sid].trade_date + 30}

\* the disposal a completed _process_disposal call returned
Completed == result.op = "_process_disposal" /\ ~result.raised

C11_WindowBounds ==
    Completed =>
        LET d == result.disposals[1]
            sid == d.transaction
            left == txs[sid].qty - MatchedUnder(d, "same_day")
        IN  /\ \A i \in 1..Len(d.matches) :
                  d.matches[i].type = "thirty_day"
                      => d.matches[i].buy_tx \in InWindow(sid)
            /\ MatchedUnder(d, "thirty_day") = Min(left, QtyOf(InWindow(sid)))
            /\ InWindow(sid) = {}
                  => /\ d.disallowed_loss = 0
                     /\ d.section104_qty = left

\* a BUY on the last day of the window, matched under the 30-day rule
C11_Witness ==
    /\ Completed
    /\ \E i \in 1..Len(result.disposals[1].matches) :
          LET m == result.disposals[1].matches[i]
          IN  /\ m.type = "thirty_day"
              /\ txs[m.buy_tx].trade_date = txs[result.arg].trade_date + 30

(***************************************************************************)
(* C12  Disallowance sign rule: for every 30-day match, disallowed_loss is *)
(* the magnitude of the match's gain_loss when gain_loss < 0 and 0 when    *)
(* gain_loss >= 0; it is never negative, and never positive for a match    *)
(* that produced a gain.                                                   *)
(***************************************************************************)
\* the 30-day matches of the disposals the last replay returned
ThirtyDayMatches ==
    {m \in UNION {{d.matches[i] : i \in 1..Len(d.matches)} :
                     d \in {result.disposals[k] : k \in 1..Len(result.disposals)}} :
        m.type = "thirty_day"}

C12_DisallowanceSign ==
    /\ Processed =>
          \A m \in ThirtyDayMatches :
              /\ m.gain_loss < 0 => m.disallowed_loss = -m.gain_loss
              /\ m.gain_loss >= 0 => m.disallowed_loss = 0
              /\ m.disallowed_loss >= 0
    /\ \A i \in 1..Len(disposal_matches) :
          /\ disposal_matches[i].disallowed_loss >= 0
          /\ txs[disposal_matches[i].sell_tx].price
                 >= txs[disposal_matches[i].matched_buy_tx].price
                => disposal_matches[i].disallowed_loss = 0

\* a 30-day match at a loss, its loss disallowed
C12_Witness ==
    /\ Processed
    /\ \E m \in ThirtyDayMatches : m.gain_loss < 0 /\ m.disallowed_loss > 0

(***************************************************************************)
(* C13  A disposal's total disallowed loss is the sum of the disallowed    *)
(* amounts of its 30-day matches only: losses on same-day matches and on   *)
(* the Section 104 pool portion never contribute, whatever their sign.     *)
(***************************************************************************)
\* the disallowed amounts of d's 30-day matches, summed
DisallowedOfThirtyDay(d) ==
    SumSeq([i \in 1..Len(d.matches) |->
               IF d.matches[i].type = "thirty_day"
               THEN d.matches[i].disallowed_loss ELSE 0])

C13_DisallowedOnlyThirtyDay ==
    Processed =>
        \A k \in 1..Len(result.disposals) :
            LET d == result.disposals[k]
            IN  /\ d.disallowed_loss = DisallowedOfThirtyDay(d)
                /\ MatchedUnder(d, "thirty_day") = 0 => d.disallowed_loss = 0

\* a disposal with a same-day match at a loss and nothing disallowed
C13_Witness ==
    /\ Processed
    /\ \E k \in 1..Len(result.disposals) :
          LET d == result.disposals[k]
          IN  /\ d.disallowed_loss = 0
              /\ \E i \in 1..Len(d.matches) :
                     d.matches[i].type = "same_day" /\ d.matches[i].gain_loss < 0

(***************************************************************************)
(* C14  Match records exist only for 30-day matches: processing a holding  *)
(* creates exactly one DisposalMatch record per 30-day match and none for  *)
(* same-day matches or the pool portion, and the matches list returned by  *)
(* process_transactions_for_holding holds exactly those records, each with *)
(* sell_tx, matched_buy_tx, qty_matched and disallowed_loss.               *)
(***************************************************************************)
\* the 30-day matches of disposals ds, in order, as DisposalMatch records
RECURSIVE ThirtyDayRecordsOf(_, _)
ThirtyDayRecordsOf(d, i) ==
    IF i > Len(d.matches) THEN <<>>
    ELSE (IF d.matches[i].type = "thirty_day"
          THEN <<[sell_tx |-> d.transaction,
                  matched_buy_tx |-> d.matches[i].buy_tx,
                  qty_matched |-> d.matches[i].qty,
                  disallowed_loss |-> d.matches[i].disallowed_loss]>>
          ELSE <<>>) \o ThirtyDayRecordsOf(d, i + 1)

RECURSIVE ThirtyDayRecords(_, _)
ThirtyDayRecords(ds, k) ==
    IF k > Len(ds) THEN <<>>
    ELSE ThirtyDayRecordsOf(ds[k], 1) \o ThirtyDayRecords(ds, k + 1)

\* the rows created are one per 30-day match
RowsPerThirtyDayMatch ==
    disposal_matches = ThirtyDayRecords(result.disposals, 1)

\* the returned list is the list of those rows
ReturnedAreRows ==
    /\ Len(result.matches) = Len(disposal_matches)
    /\ \A i \in 1..Len(result.matches) :
          /\ DOMAIN result.matches[i] = DOMAIN disposal_matches[i]
          /\ result.matches[i] = disposal_matches[i]

C14_MatchRecordsOnlyThirtyDay ==
    ProcessedOnce => (RowsPerThirtyDayMatch /\ ReturnedAreRows)

(***************************************************************************)
(* C15  A disposal's total_gain_loss is the sum of (sell price - buy       *)
(* price) * matched quantity over its same-day and 30-day matches plus     *)
(* (sell price - pool average cost used) * section104_qty.                 *)
(***************************************************************************)
\* Unit times the sum over d's matches of (sell price - buy price) * qty
MatchGains(d) ==
    SumSeq([i \in 1..Len(d.matches) |->
               (txs[d.transaction].price - txs[d.matches[i].buy_tx].price)
                   * d.matches[i].qty])

\* Unit times (sell price - average cost used) * section104_qty
PoolGain(d) ==
    (txs[d.transaction].price - d.section104_avg_cost) * d.section104_qty

C15_TotalGainLoss ==
    Processed =>
        \A k \in 1..Len(result.disposals) :
            LET d == result.disposals[k]
            IN  Unit * d.total_gain_loss = MatchGains(d) + PoolGain(d)

\* a disposal partly matched and partly taken from the pool
C15_Witness ==
    /\ Processed
    /\ \E k \in 1..Len(result.disposals) :
          /\ result.disposals[k].section104_qty > 0
          /\ MatchedUnder(result.disposals[k], "thirty_day") > 0
          /\ result.disposals[k].total_gain_loss # 0

CostOfAll == SumSeq([i \in 1..Len(txs) |->
                        txs[i].qty * txs[i].price + Unit * txs[i].fees])

QtyOfAll == SumSeq([i \in 1..Len(txs) |-> txs[i].qty])

C18_ZeroQuantityNoOp ==
    [][\A sid \in SellIds :
          (ProcessDisposal(sid) /\ txs[sid].qty = 0)
          => /\ ~result'.raised
             /\ result'.disposals[1].matched_qty = 0
             /\ result'.disposals[1].section104_qty = 0
             /\ result'.disposals[1].total_gain_loss = 0
             /\ result'.disposals[1].disallowed_loss = 0
             /\ result'.disposals[1].matches = <<>>
             /\ result'.matches = <<>>
             /\ disposal_matches' = disposal_matches
             /\ PoolUntouched]_vars

\* a disposal of no share, with a BUY on its day and shares in the pool
C18_Witness ==
    /\ Completed
    /\ txs[result.arg].qty = 0
    /\ SameDayBuys(result.arg) # {}
    /\ pool.pooled_qty > 0

(***************************************************************************)
(* C19  Period totals apply the Annual Exempt Amount as: taxable_gains =   *)
(* max(0, net_gains - annual_exempt_amount) when net_gains > 0 and 0       *)
(* otherwise; carry_forward_losses = |net_gains| when net_gains <= 0 and 0 *)
(* otherwise; so the two are never both positive and neither is negative.  *)
(***************************************************************************)
Totalled == result.op = "_calculate_totals"

C19_AnnualExemptAmount ==
    Totalled =>
        LET t == result.ret
        IN  /\ t.annual_exempt_amount = 3000 * Unit
            /\ t.net_gains > 0 =>
                  /\ t.net_gains - t.annual_exempt_amount >= 0
                        => t.taxable_gains = t.net_gains - t.annual_exempt_amount
                  /\ t.net_gains - t.annual_exempt_amount < 0
                        => t.taxable_gains = 0
                  /\ t.carry_forward_losses = 0
            /\ t.net_gains <= 0 =>
                  /\ t.taxable_gains = 0
                  /\ t.carry_forward_losses = -t.net_gains
            /\ ~(t.taxable_gains > 0 /\ t.carry_forward_losses > 0)
            /\ t.taxable_gains >= 0
            /\ t.carry_forward_losses >= 0

\* net gains that the exempt amount covers whole
C19_Witness ==
    /\ Totalled
    /\ result.ret.net_gains > 0
    /\ result.ret.net_gains < result.ret.annual_exempt_amount
    /\ result.ret.taxable_gains = 0

(***************************************************************************)
(* C20  Period totals classify each disposal by allowable_loss = gain_loss *)
(* + disallowed_loss: gross_gains is the sum of the positive allowable     *)
(* losses, gross_losses the sum of the absolute values of the negative     *)
(* ones, disallowed_losses the sum of the disallowed amounts, and          *)
(* net_gains = gross_gains - gross_losses, which is the sum of             *)
(* allowable_loss over the period's disposals.                             *)
(***************************************************************************)
C20_GrossGainsAndLosses ==
    Totalled =>
        LET t == result.ret
            ds == result.disposals
            allowable == [k \in 1..Len(ds) |->
                             ds[k].gain_loss + ds[k].disallowed_loss]
        IN  /\ \A k \in 1..Len(ds) :
                  /\ ds[k].allowable_loss = allowable[k]
                  /\ ds[k].gain_loss = ds[k].disposal_proceeds - ds[k].total_cost
            /\ t.gross_gains =
                  SumSeq([k \in 1..Len(ds) |->
                             IF allowable[k] > 0 THEN allowable[k] ELSE 0])
            /\ t.gross_losses =
                  SumSeq([k \in 1..Len(ds) |->
                             IF allowable[k] < 0 THEN -allowable[k] ELSE 0])
            /\ t.disallowed_losses =
                  SumSeq([k \in 1..Len(ds) |-> ds[k].disallowed_loss])
            /\ t.net_gains = t.gross_gains - t.gross_losses
            /\ t.net_gains = SumSeq(allowable)

\* a period with a disposal at a loss, part of it disallowed, and both a
\* gross gain and a gross loss
C20_Witness ==
    /\ Totalled
    /\ \E k \in 1..Len(result.disposals) :
          /\ result.disposals[k].gain_loss < 0
          /\ result.disposals[k].disallowed_loss > 0
    /\ result.ret.gross_gains > 0
    /\ result.ret.gross_losses > 0

(***************************************************************************)
(* C21  For every disposal of the period the report's total_cost is the    *)
(* matched cost of its same-day, 30-day and pool portions as the engine    *)
(* resolved them (the pool portion at the average cost used at the time of *)
(* the disposal), and the report's gain_loss is the engine's               *)
(* total_gain_loss of the same disposal.                                   *)
(***************************************************************************)
Reported == result.op = "report" /\ ~result.raised /\ nproc = 1

\* Unit times the cost of the portions of disposal d as the engine matched them
EngineCost(d) ==
    SumSeq([i \in 1..Len(d.matches) |->
               txs[d.matches[i].buy_tx].price * d.matches[i].qty])
        + d.section104_avg_cost * d.section104_qty

C21_ReportMatchesEngine ==
    Reported =>
        \A k \in 1..Len(result.disposals) :
            \E j \in 1..Len(result.ret) :
                /\ result.ret[j].transaction = result.disposals[k].transaction
                /\ Unit * result.ret[j].total_cost = EngineCost(result.disposals[k])
                /\ result.ret[j].gain_loss = result.disposals[k].total_gain_loss

(***************************************************************************)
(* C22  Processing one holding leaves the pool and the match records of    *)
(* every other holding as they were, and matches no SELL against a BUY of  *)
(* another holding.                                                        *)
(***************************************************************************)
\* the DisposalMatch rows of holding g's SELLs
MatchRecordsOf(g) ==
    SelectSeq(disposal_matches, LAMBDA m : txs[m.sell_tx].holding = g)

\* every match the last call returned or recorded stays within its holding
MatchesWithinHolding ==
    /\ \A i \in 1..Len(disposal_matches) :
          txs[disposal_matches[i].sell_tx].holding
              = txs[disposal_matches[i].matched_buy_tx].holding
    /\ \A k \in 1..Len(result.disposals) :
          \A i \in 1..Len(result.disposals[k].matches) :
              txs[result.disposals[k].matches[i].buy_tx].holding
                  = txs[result.disposals[k].transaction].holding

C22_CrossHoldingIsolation ==
    [][\A h \in Holdings :
          ProcessTransactionsForHolding(h) =>
              /\ \A g \in Holdings \ {h} :
                    /\ pools'[g] = pools[g]
                    /\ MatchRecordsOf(g)' = MatchRecordsOf(g)
              /\ MatchesWithinHolding']_vars

\* ABC processed after XYZ, whose pool holds shares and whose SELL has a
\* match record, a BUY of XYZ being on the day of ABC's disposal
C22_Witness ==
    /\ Processed
    /\ result.holding = "ABC"
    /\ pools["XYZ"].exists /\ pools["XYZ"].pooled_qty > 0
    /\ MatchRecordsOf("XYZ") # <<>>
    /\ \E k \in 1..Len(result.disposals) :
          \E b \in 1..Len(txs) :
              /\ txs[b].holding = "XYZ" /\ txs[b].side = "BUY"
              /\ txs[b].trade_date = txs[result.disposals[k].transaction].trade_date

(***************************************************************************)
(* C23  The replay takes the holding's transactions in ascending           *)
(* (trade_date, creation) order whatever order they were inserted in: the  *)
(* disposals returned are in that order, and the pool each SELL draws on   *)
(* is the one left by the BUYs and SELLs before it in that order.          *)
(***************************************************************************)
\* the transactions of sid's holding that come before it
Before(sid) ==
    {i \in 1..Len(txs) :
        i # sid /\ txs[i].holding = txs[sid].holding /\ Earlier(i, sid)}

\* the disposal the run returned for SELL sid
DisposalOf(sid) ==
    result.disposals[CHOOSE k \in 1..Len(result.disposals) :
                         result.disposals[k].transaction = sid]

\* the pool after the transactions of S, taken latest first off the end of
\* the order: BUYs added, the pool portion of each disposal removed
RECURSIVE PoolAfter(_)
PoolAfter(S) ==
    IF S = {} THEN NewPool
    ELSE LET m == CHOOSE i \in S : \A j \in S \ {i} : Earlier(j, i)
         IN  IF txs[m].side = "BUY"
             THEN add_purchase(PoolAfter(S \ {m}), txs[m].qty, txs[m].price, txs[m].fees)
             ELSE remove_disposal(PoolAfter(S \ {m}), DisposalOf(m).section104_qty)

OutcomeOf(r) ==
    [raised |-> r.raised,
     pooled_qty |-> r.pool.pooled_qty,
     pooled_cost |-> r.pool.pooled_cost,
     disposals |-> [k \in 1..Len(r.disposals) |->
                      [same_day_qty |-> MatchedUnder(r.disposals[k], "same_day"),
                       section104_qty |-> r.disposals[k].section104_qty,
                       section104_avg_cost |-> r.disposals[k].section104_avg_cost,
                       total_gain_loss |-> r.disposals[k].total_gain_loss]]]

C24_CreationOrderIndependent ==
    /\ nproc = 0 =>
          OutcomeOf(process_transactions_for_holding("ABC"))
              = OutcomeOf(process_transactions_for_holding("XYZ"))
    /\ (nproc = 2 /\ pools["ABC"].exists /\ pools["XYZ"].exists) =>
          pools["ABC"] = pools["XYZ"]

(***************************************************************************)
(* C25  Share conservation over a replay: after a run that started from an *)
(* empty pool and succeeded, the pool's pooled_qty is the quantity bought  *)
(* less the quantity sold of the holding.                                  *)
(***************************************************************************)
\* total quantity of the holding's transactions of one side
QtyOfSide(h, side) ==
    SumSeq([i \in 1..Len(txs) |->
               IF txs[i].holding = h /\ txs[i].side = side THEN txs[i].qty ELSE 0])

C25_ShareConservation ==
    ProcessedOnce =>
        /\ result.pool.pooled_qty
               = QtyOfSide(result.holding, "BUY") - QtyOfSide(result.holding, "SELL")
        /\ pools[result.holding].pooled_qty = result.pool.pooled_qty

(***************************************************************************)
(* C26  remove_disposal keeps the pool's average cost: for                 *)
(* 0 < qty < pooled_qty the average cost after the call is the average     *)
(* cost the call returned, and removing the whole pooled quantity leaves   *)
(* pooled_qty = 0 and pooled_cost = 0.                                     *)
(***************************************************************************)
C26_RemovePreservesAverage ==
    [][\A q \in RemoveQtys :
          (RemoveDisposal(q) /\ ~result'.raised) =>
              /\ (0 < Dec(q) /\ Dec(q) < pool.pooled_qty)
                    => avg_cost(pool') = result'.ret
              /\ Dec(q) = pool.pooled_qty
                    => (pool'.pooled_qty = 0 /\ pool'.pooled_cost = 0)]_vars

(***************************************************************************)
(* C27  However many times process_transactions_for_holding is called on   *)
(* a holding whose transactions do not change, there is at most one        *)
(* DisposalMatch record for each pair of a SELL and a matched BUY.         *)
(***************************************************************************)
C27_OneRecordPerPair ==
    \A i, j \in 1..Len(disposal_matches) :
        (/\ disposal_matches[i].sell_tx = disposal_matches[j].sell_tx
         /\ disposal_matches[i].matched_buy_tx = disposal_matches[j].matched_buy_tx)
            => i = j

(***************************************************************************)
(* C28  A harvest created for a holding whose pool reflects its            *)
(* transactions sells the whole pooled quantity: after execute_tlh         *)
(* succeeds, no replacement being bought in the same holding, the          *)
(* holding's pool has pooled_qty = 0.                                      *)
(***************************************************************************)
\* the only request made was an execute, and it succeeded
ExecutedAlone ==
    /\ requests[1].pc = "done"
    /\ requests[1].kind = "execute"
    /\ requests[1].outcome = "success"
    /\ \A r \in 2..MaxRequests : requests[r].pc = "idle"

\* the pool the harvest was created from came of one successful replay and
\* held what had been bought less what had been sold
CreatedFromReflectingPool ==
    /\ ProcessedOnce
    /\ tlh_execution.exists
    /\ tlh_execution.original_qty =
           SumSeq([i \in 1..Len(txs) |->
                      IF txs[i].holding = tlh_execution.holding /\ txs[i].trade_date < today
                      THEN (IF txs[i].side = "BUY" THEN txs[i].qty ELSE 0 - txs[i].qty)
                      ELSE 0])

C28_HarvestEmptiesPool ==
    (/\ CreatedFromReflectingPool
     /\ tlh_execution.replacement_ticker # tlh_execution.holding
     /\ ExecutedAlone)
        => pools[tlh_execution.holding].pooled_qty = 0

(***************************************************************************)
(* C29  A harvest is executed at most once: however execute and cancel     *)
(* requests for one execution interleave, at most one SELL is ever created *)
(* for it, and once its status is EXECUTED, FAILED or CANCELLED no later   *)
(* request changes the status or creates transactions.                     *)
(***************************************************************************)
\* the rows as other connections see them: those of before the atomic block
\* while a request is inside it
Committed ==
    IF InAtomic
    THEN requests[CHOOSE r \in 1..MaxRequests :
                      requests[r].pc \in {"holding", "replacement"}].savepoint
    ELSE Database

\* the SELLs made for the execution: those of its holding dated today
HarvestSells(T) ==
    {i \in 1..Len(T) : /\ T[i].holding = tlh_execution.holding
                       /\ T[i].side = "SELL"
                       /\ T[i].trade_date = today}

C29_ExecutedAtMostOnce ==
    /\ [](Cardinality(HarvestSells(Committed.txs)) <= 1)
    /\ [][Committed.status \in {"EXECUTED", "FAILED", "CANCELLED"}
             => /\ Committed'.status = Committed.status
                /\ Committed'.txs = Committed.txs]_vars

(***************************************************************************)
(* C30  When execute_tlh fails at some step, the insufficient-pool error   *)
(* of the compliance replay included, the execution ends with status       *)
(* FAILED and nothing the attempt did remains: no SELL, no replacement     *)
(* BUY, no DisposalMatch record and no pool change.                        *)
(***************************************************************************)
\* request r leaves execute_tlh through its except clause in this step
Fails(r) ==
    /\ requests[r].pc \in {"holding", "replacement"}
    /\ requests'[r].outcome = "failed"

C30_FailureLeavesNothing ==
    [][\A r \in 1..MaxRequests :
          Fails(r) =>
              /\ tlh_execution'.status = "FAILED"
              /\ txs' = requests[r].savepoint.txs
              /\ pools' = requests[r].savepoint.pools
              /\ disposal_matches' = requests[r].savepoint.disposal_matches
              /\ Len(txs') < Len(txs)]_vars

\* an attempt that had created the SELL and a replacement BUY failed in a
\* replay
C30_Witness ==
    /\ \E r \in 1..MaxRequests :
          requests[r].kind = "execute" /\ requests[r].outcome = "failed"
    /\ tlh_execution.status = "FAILED"
    /\ tlh_execution.replacement_ticker # ""

====
